---- MODULE Spec2Model ----
(***************************************************************************)
(* Model of the Search class of chat-engine (src/src/components/search.js):*)
(* a paginated walk over PubNub history that re-triggers every historical  *)
(* record through the Search object's own event bus.                       *)
(*                                                                         *)
(* JavaScript values that may be undefined are modelled as sequences of    *)
(* length at most one: <<>> is undefined, <<v>> is the value v.            *)
(***************************************************************************)
EXTENDS Integers, Sequences, FiniteSets, TLC

\* ------------------------------------------------------------------ bounds
\* largest explicitly configured config.limit
MaxLimit == 1
\* largest number of records the history primitive puts in one page, and
\* largest explicitly configured config.count
MaxLen == 2
\* message timetokens are TTBase + k for k \in 1..MaxTT (see ParseInt)
MaxTT == 2
\* largest explicitly configured config.start
MaxStart == 1
\* the observation counters (signals, calls, requests) saturate at MaxLog
MaxLog == 3

\* ------------------------------------------------------- program constants
\* config.limit || 20
DefaultLimit == 20
\* config.count || 100
DefaultCount == 100

\* ------------------------------------------------------------------ values
Undefined == <<>>
Some(v) == <<v>>
Opt(S) == {Undefined} \cup {Some(v) : v \in S}

Events == {"msg", "other"}
Uuids == {"u1", "u2"}
Users == [uuid : Uuids]

\* the payload of one historical record (message.entry)
Entries == [event : Events, sender : Opt(Users)]
\* one element of response.messages.  Its entry is read only when the record
\* is passed to trigger, and the model draws it from Entries at that moment.
Messages == [timetoken : 1..MaxTT]

Min(a, b) == IF a < b THEN a ELSE b
\* an observation counter, saturating
Bump(n) == Min(n + 1, MaxLog)

\* sequences over S of length at most n
SeqUpTo(S, n) == UNION {[1..k -> S] : k \in 0..n}

\* -------------------------------------------------------- pure operators
\* JavaScript's  v || d  on an optional number: undefined and 0 are falsy
JsOr(v, d) == IF v = Undefined \/ v[1] = 0 THEN d ELSE v[1]

\* parseInt(timetoken, 10).  A PubNub timetoken is a 17-digit decimal string
\* between 2^53 and 2^54, where a double holds only the even integers:
\* parseInt rounds to the nearest one, ties to the even mantissa (a multiple
\* of 4).  The timetoken TTBase + k, for a TTBase in that range with
\* TTBase % 4 = 1, is modelled by k >= 1 (0 is the number 0, which only the
\* cursor fields hold), and ParseInt gives the parsed double the same way:
\* 1 -> 1, 2 -> 3, 3 -> 3, 4 -> 3, 5 -> 5, ...
ParseInt(k) ==
    IF k % 4 = 0 THEN k - 1
    ELSE IF k % 4 = 2 THEN k + 1
    ELSE k

\* the comparator of sortHistory
Compare(a, b, desc) ==
    LET e1 == IF desc THEN b ELSE a
        e2 == IF desc THEN a ELSE b
    IN  ParseInt(e1.timetoken) - ParseInt(e2.timetoken)

\* Array.prototype.sort places m after every element that does not compare
\* greater than it (the sort is stable)
RECURSIVE InsertSorted(_, _, _)
InsertSorted(m, s, desc) ==
    IF s = <<>> THEN <<m>>
    ELSE IF Compare(s[1], m, desc) <= 0
         THEN <<s[1]>> \o InsertSorted(m, Tail(s), desc)
         ELSE <<m>> \o s

RECURSIVE SortFrom(_, _, _)
SortFrom(sorted, rest, desc) ==
    IF rest = <<>> THEN sorted
    ELSE SortFrom(InsertSorted(rest[1], sorted, desc), Tail(rest), desc)

\* a plausible slip: the page is handed on as the primitive returned it
SortHistoryUnsorted(messages, desc) == messages

\* this.sortHistory(messages, desc)
SortHistory(messages, desc) == SortFrom(<<>>, messages, desc)

\* Array.prototype.reverse
Reverse(s) == [i \in 1..Len(s) |-> s[Len(s) + 1 - i]]

\* the condition of the if in  config.start / config.event / config.sender  tests
TruthyNum(v) == v # Undefined /\ v[1] # 0
TruthyVal(v) == v # Undefined

\* ------------------------------------------------------------- middleware
\* Each filter gives the first argument it passes to next(): TRUE rejects.

\* a plausible slip: next(matches, payload) instead of next(!matches, payload)
EventFilterInverted(event, payload) ==
    payload.event # "" /\ payload.event = event

\* eventFilter(event).middleware.on['*']
EventFilter(event, payload) ==
    LET matches == payload.event # "" /\ payload.event = event
    IN  ~matches

\* a plausible slip: a payload that carries no sender is let through
SenderFilterLax(user, payload) ==
    LET matches == payload.sender = Undefined
                   \/ payload.sender[1].uuid = user.uuid
    IN  ~matches

\* senderFilter(user).middleware.on['*']
SenderFilter(user, payload) ==
    LET matches == payload.sender # Undefined
                   /\ payload.sender[1].uuid = user.uuid
    IN  ~matches

\* one middleware entry applied to a payload
Middleware(p, payload) ==
    IF p.filter = "event" THEN EventFilter(p.arg, payload)
    ELSE SenderFilter(p.arg, payload)

\* Emitter.trigger: the on-'*' middleware chain runs in registration order
\* and halts at the first entry that rejects; the value is the reject
\* indicator the settlement callback receives
RECURSIVE RunPluginQueue(_, _)
RunPluginQueue(chain, payload) ==
    IF chain = <<>> THEN FALSE
    ELSE IF Middleware(chain[1], payload) THEN TRUE
    ELSE RunPluginQueue(Tail(chain), payload)

\* the plugins the constructor attaches, in order
Plugins(cfg) ==
    (IF TruthyVal(cfg.event)
        THEN <<[filter |-> "event", arg |-> cfg.event[1]]>> ELSE <<>>)
    \o
    (IF TruthyVal(cfg.sender)
        THEN <<[filter |-> "sender", arg |-> cfg.sender[1]]>> ELSE <<>>)

\* ------------------------------------------------------ the record series
\* a plausible slip: <= lets one record more than limit through
ShouldTriggerInclusive(needle, limit) == needle <= limit

\* triggerHistory: the record is triggered only while needleCount < limit
ShouldTrigger(needle, limit) == needle < limit

\* a plausible slip: the needle is counted whatever the settlement says
NeedleAfterAlways(needle, reject) == needle + 1

\* the settlement callback of triggerHistory
NeedleAfter(needle, reject) == IF ~reject THEN needle + 1 ELSE needle

\* a plausible slip: the series is declared complete one record early
SeriesCompleteEarly(msgs, j) == j >= Len(msgs)

\* eachSeries has consumed every element: its final callback runs
SeriesComplete(msgs, j) == j > Len(msgs)

\* eachSeries from element j on: the index of the next element for which
\* triggerHistory calls trigger (the series then waits for the settlement),
\* or the index at which the series is complete; an element that is not
\* triggered calls back at once and the series moves on
RECURSIVE EachSeriesFrom(_, _, _, _)
EachSeriesFrom(msgs, j, needle, limit) ==
    IF SeriesComplete(msgs, j) THEN j
    ELSE IF ShouldTrigger(needle, limit) THEN j
    ELSE EachSeriesFrom(msgs, j + 1, needle, limit)

\* a plausible slip: the limit is not looked at when deciding to go on
ContinueCondNoLimit(msgs, count, needle, limit) == Len(msgs) = count

\* the condition under which find() asks for another page
ContinueCondAtMost(msgs, count, needle, limit) ==
    /\ Len(msgs) <= count
    /\ needle < limit

ContinueCond(msgs, count, needle, limit) ==
    Len(msgs) = count /\ needle < limit

\* ------------------------------------------------------------------- state
VARIABLES
    given,          \* the config argument as the caller passed it
    config,         \* this.config
    plugins,        \* the on-'*' middleware chain of this Search
    needleCount,    \* this.needleCount
    firstTT,        \* this.firstTT
    lastTT,         \* this.lastTT
    firstPage,      \* this.firstPage
    pc,             \* where the session is (see PcValues)
    messages,       \* response.messages of the page being processed
    idx,            \* position of eachSeries in messages
    payload,        \* the payload of the trigger call that has not settled
    outstanding,    \* history requests issued and not yet answered
    status,         \* status of the last history response
    emitted,        \* how often each signal was passed to _emit, and under
                    \* "calls" what the handler that ran last emitted and
                    \* called (_emit, pubnub.history, trigger, throwError),
                    \* in order
    throwCount,     \* calls of chatEngine.throwError
    requests,       \* calls of pubnub.history
    reqStart,       \* config.start as passed to the last history call
    prevReqStart,   \* config.start as passed to the history call before
    leftBehind,     \* records of the page before that eachSeries had not
                    \* consumed when the last history call was made
    triggerCalls,   \* calls of this.trigger made by triggerHistory
    pageTriggered,  \* the records of this page passed to trigger, in order
    accepted,       \* payloads the listeners received (settled, not rejected)
    other,          \* the fields and position of a second Search on the
                    \* same chat, whose callbacks are not the ones running
    cur,            \* which of the two Searches the variables above are of
    answered,       \* what a history primitive that answers from the
                    \* request parameters alone has answered so far
    delivered       \* how often the record of each timetoken was passed to
                    \* trigger in this session (counted up to 2)

vars == <<given, config, plugins, needleCount, firstTT, lastTT, firstPage,
          pc, messages, idx, payload, outstanding, status, emitted,
          throwCount, requests, reqStart, prevReqStart, leftBehind,
          triggerCalls, pageTriggered, accepted, other, cur, answered,
          delivered>>

\* "new": the constructor has not run; "awaitHistory": a history request is
\* outstanding; "awaitTrigger": trigger was called for messages[idx] and has
\* not settled; "finished": $.search.finish was emitted; "errored": the
\* history response reported an error; "threw": the history callback threw
PcValues == {"new", "awaitHistory", "awaitTrigger", "finished", "errored", "threw"}

Signals == {"$.search.start", "$.search.page.request",
            "$.search.page.response", "$.search.finish"}

\* what a caller may pass as config
Configs ==
    [event   : Opt({"msg"}),
     sender  : Opt({[uuid |-> "u1"]}),
     limit   : Opt(0..MaxLimit),
     count   : Opt(1..MaxLen),
     start   : Opt(1..MaxStart),
     reverse : BOOLEAN]

\* nothing emitted yet
NoSignal == [s \in Signals \cup {"calls"} |-> IF s = "calls" THEN <<>> ELSE 0]

\* a successful history response: startTimeToken is the timetoken of the
\* first message in the response and endTimeToken that of the last, 0 when
\* there is none
Response(msgs) ==
    LET some == msgs # Undefined /\ msgs[1] # <<>> IN
    [messages       |-> msgs,
     startTimeToken |-> IF some THEN msgs[1][1].timetoken ELSE 0,
     endTimeToken   |-> IF some THEN msgs[1][Len(msgs[1])].timetoken ELSE 0]

\* what the history primitive may answer to a request for count records
Responses(count) ==
    {Response(msgs) : msgs \in Opt(SeqUpTo(Messages, Min(MaxLen, count)))}

\* a Search whose constructor has not run yet, to be given config g
Fresh(g) ==
    [given |-> g, config |-> g, plugins |-> <<>>, needleCount |-> 0,
     firstTT |-> 0, lastTT |-> 0, firstPage |-> TRUE, pc |-> "new",
     messages |-> <<>>, idx |-> 1, payload |-> Undefined, outstanding |-> 0,
     status |-> "none", emitted |-> NoSignal, throwCount |-> 0,
     requests |-> 0, reqStart |-> Undefined, prevReqStart |-> Undefined,
     leftBehind |-> 0, triggerCalls |-> 0, pageTriggered |-> <<>>,
     accepted |-> 0]

\* the Search whose callbacks are running
Current ==
    [given |-> given, config |-> config, plugins |-> plugins,
     needleCount |-> needleCount, firstTT |-> firstTT, lastTT |-> lastTT,
     firstPage |-> firstPage, pc |-> pc, messages |-> messages, idx |-> idx,
     payload |-> payload, outstanding |-> outstanding, status |-> status,
     emitted |-> emitted, throwCount |-> throwCount, requests |-> requests,
     reqStart |-> reqStart, prevReqStart |-> prevReqStart,
     leftBehind |-> leftBehind, triggerCalls |-> triggerCalls,
     pageTriggered |-> pageTriggered, accepted |-> accepted]

\* one Search on its own
Session ==
    /\ given \in Configs
    /\ config = given
    /\ plugins = <<>>
    /\ needleCount = 0
    /\ firstTT = 0
    /\ lastTT = 0
    /\ firstPage = TRUE
    /\ pc = "new"
    /\ messages = <<>>
    /\ idx = 1
    /\ payload = Undefined
    /\ outstanding = 0
    /\ status = "none"
    /\ emitted = NoSignal
    /\ throwCount = 0
    /\ requests = 0
    /\ reqStart = Undefined
    /\ prevReqStart = Undefined
    /\ leftBehind = 0
    /\ triggerCalls = 0
    /\ pageTriggered = <<>>
    /\ accepted = 0

\* a single Search; no second one is ever constructed
Init ==
    /\ Session
    /\ other = Fresh(given)
    /\ cur = 1
    /\ answered = {}
    /\ delivered = [tt \in 1..MaxTT |-> 0]

\* this._emit(signal)
Emit(em, signal) ==
    [em EXCEPT ![signal] = Bump(@), !["calls"] = Append(@, signal)]

\* a call of name other than _emit
Call(em, name) == [em EXCEPT !["calls"] = Append(@, name)]

\* a handler starts to run: nothing emitted or called by it yet
Handler(em) == [em EXCEPT !["calls"] = <<>>]

\* config.start as this.page leaves it before the history call
PageStart(cfg, fp, fTT, lTT) ==
    IF fp /\ ~TruthyNum(cfg.start)
    THEN Some(IF cfg.reverse THEN lTT ELSE fTT)
    ELSE cfg.start

PageQuiet(cfg, fp, fTT, lTT, em, out, left) ==
    /\ emitted' = Call(em, "pubnub.history")
    /\ config' = [cfg EXCEPT !.start = PageStart(cfg, fp, fTT, lTT)]
    /\ firstPage' = FALSE
    /\ outstanding' = out + 1
    /\ requests' = Bump(requests)
    /\ reqStart' = config'.start
    /\ prevReqStart' = reqStart
    /\ leftBehind' = left
    /\ messages' = <<>>
    /\ idx' = 1
    /\ pageTriggered' = <<>>
    /\ payload' = Undefined
    /\ pc' = "awaitHistory"

\* this.page(pageDone) up to and including the call of pubnub.history;
\* cfg, fp, fTT, lTT, em, out are this.config, this.firstPage, this.firstTT,
\* this.lastTT, the signal counts and the outstanding requests as the
\* handler that calls page has left them, and left is the number of records
\* of the current page eachSeries has not consumed.  The response of the
\* page before is referenced no longer.
Page(cfg, fp, fTT, lTT, em, out, left) ==
    /\ emitted' = Call(Emit(em, "$.search.page.request"), "pubnub.history")
    /\ config' = [cfg EXCEPT !.start = PageStart(cfg, fp, fTT, lTT)]
    /\ firstPage' = FALSE
    /\ outstanding' = out + 1
    /\ requests' = Bump(requests)
    /\ reqStart' = config'.start
    /\ prevReqStart' = reqStart
    /\ leftBehind' = left
    /\ messages' = <<>>
    /\ idx' = 1
    /\ pageTriggered' = <<>>
    /\ payload' = Undefined
    /\ pc' = "awaitHistory"

\* the else branch of the final callback of eachSeries
Finish(msgs, k, pt, em, out) ==
    /\ emitted' = Emit(em, "$.search.finish")
    /\ outstanding' = out
    /\ messages' = msgs
    /\ idx' = k
    /\ pageTriggered' = pt
    /\ payload' = Undefined
    /\ pc' = "finished"
    /\ UNCHANGED <<config, firstPage, requests, reqStart, prevReqStart,
                   leftBehind>>

\* this.trigger(message.entry.event, message.entry, ...) for msgs[k]
CallTrigger(msgs, k, pt, em, out) ==
    /\ payload' \in {Some(entry) : entry \in Entries}
    /\ triggerCalls' = Bump(triggerCalls)
    /\ pageTriggered' = Append(pt, msgs[k])
    /\ emitted' = Call(em, "trigger")
    /\ outstanding' = out
    /\ messages' = msgs
    /\ idx' = k
    /\ pc' = "awaitTrigger"
    /\ UNCHANGED <<config, firstPage, requests, reqStart, prevReqStart,
                   leftBehind>>

\* eachSeries(response.messages, this.triggerHistory, final) from element j
\* on, with needleCount = needle, until trigger is called for an element or
\* the final callback has run; pt is pageTriggered so far
Series(msgs, j, needle, fTT, lTT, pt, em, out) ==
    LET k == EachSeriesFrom(msgs, j, needle, config.limit) IN
    /\ needleCount' = needle
    /\ IF ~SeriesComplete(msgs, k)
       THEN CallTrigger(msgs, k, pt, em, out)
       ELSE /\ UNCHANGED triggerCalls
            /\ IF ContinueCond(msgs, config.count, needle, config.limit)
               THEN Page(config, firstPage, fTT, lTT, em, out,
                         Len(msgs) + 1 - k)
               ELSE Finish(msgs, k, pt, em, out)

\* ----------------------------------------------------------------- actions
\* the defaults the constructor writes into config
Defaulted(cfg) ==
    [cfg EXCEPT !.limit = JsOr(cfg.limit, DefaultLimit),
                !.count = JsOr(cfg.count, DefaultCount)]

\* new Search(chatEngine, chat, config): defaults, the two filters,
\* $.search.start, and the first find(), which issues the first request
Construct ==
    /\ pc = "new"
    /\ plugins' = Plugins(Defaulted(given))
    /\ Page(Defaulted(given), firstPage, firstTT, lastTT,
            Emit(Handler(emitted), "$.search.start"), outstanding, 0)
    /\ UNCHANGED <<given, needleCount, firstTT, lastTT, status, throwCount,
                   triggerCalls, accepted>>

\* a plausible slip: the failed page is asked for again
OnErrorRetry ==
    /\ status' = "error"
    /\ throwCount' = Bump(throwCount)
    /\ Page(config, firstPage, firstTT, lastTT,
            Call(Emit(Handler(emitted), "$.search.page.response"),
                 "throwError"),
            outstanding - 1, 0)
    /\ UNCHANGED <<given, plugins, needleCount, firstTT, lastTT, triggerCalls,
                   accepted>>

\* a plausible slip: the error path announces the end of the search too
OnErrorFinishes ==
    /\ status' = "error"
    /\ emitted' = Emit(Call(Emit(Handler(emitted), "$.search.page.response"),
                            "throwError"),
                       "$.search.finish")
    /\ throwCount' = Bump(throwCount)
    /\ outstanding' = outstanding - 1
    /\ pc' = "errored"
    /\ UNCHANGED <<given, config, plugins, needleCount, firstTT, lastTT,
                   firstPage, messages, idx, payload, requests, reqStart,
                   prevReqStart, leftBehind, triggerCalls, pageTriggered,
                   accepted>>

\* the history callback when status.error is set
OnError ==
    /\ status' = "error"
    /\ emitted' = Call(Emit(Handler(emitted), "$.search.page.response"),
                       "throwError")
    /\ throwCount' = Bump(throwCount)
    /\ outstanding' = outstanding - 1
    /\ pc' = "errored"
    /\ UNCHANGED <<given, config, plugins, needleCount, firstTT, lastTT,
                   firstPage, messages, idx, payload, requests, reqStart,
                   prevReqStart, leftBehind, triggerCalls, pageTriggered,
                   accepted>>

OnSuccessSilent(response) ==
    /\ status' = "ok"
    /\ firstTT' = response.startTimeToken
    /\ lastTT' = response.endTimeToken
    /\ IF response.messages = Undefined
       THEN /\ pc' = "threw"
            /\ emitted' = Handler(emitted)
            /\ outstanding' = outstanding - 1
            /\ UNCHANGED <<config, needleCount, firstPage, messages, idx,
                           payload, requests, reqStart, prevReqStart,
                           leftBehind, triggerCalls, pageTriggered>>
       ELSE LET sorted == SortHistory(response.messages[1], FALSE)
                page == IF ~config.reverse THEN Reverse(sorted) ELSE sorted
            IN  Series(page, 1, needleCount, response.startTimeToken,
                       response.endTimeToken, <<>>, Handler(emitted),
                       outstanding - 1)
    /\ UNCHANGED <<given, plugins, throwCount, accepted>>

\* the history callback when status.error is not set: the cursor state, the
\* sort, and pageDone(response), which is the callback find() gave to page:
\* the reverse and the record series.  messages.sort on an undefined
\* response.messages throws a TypeError out of the callback.
OnSuccess(response) ==
    /\ status' = "ok"
    /\ firstTT' = response.startTimeToken
    /\ lastTT' = response.endTimeToken
    /\ IF response.messages = Undefined
       THEN /\ pc' = "threw"
            /\ emitted' = Emit(Handler(emitted), "$.search.page.response")
            /\ outstanding' = outstanding - 1
            /\ UNCHANGED <<config, needleCount, firstPage, messages, idx,
                           payload, requests, reqStart, prevReqStart,
                           leftBehind, triggerCalls, pageTriggered>>
       ELSE LET sorted == SortHistory(response.messages[1], FALSE)
                page == IF ~config.reverse THEN Reverse(sorted) ELSE sorted
            IN  Series(page, 1, needleCount, response.startTimeToken,
                       response.endTimeToken, <<>>,
                       Emit(Handler(emitted), "$.search.page.response"),
                       outstanding - 1)
    /\ UNCHANGED <<given, plugins, throwCount, accepted>>

\* the callback pubnub.history calls with (status, response)
HistoryResponse ==
    /\ pc = "awaitHistory"
    /\ \/ OnError
       \/ \E response \in Responses(config.count) : OnSuccess(response)

\* trigger settles for messages[idx]: the middleware chain has run, the
\* listeners have received the payload unless it was rejected, and the
\* callback triggerHistory passed counts the needle and resumes the series
TriggerSettle ==
    /\ pc = "awaitTrigger"
    /\ LET reject == RunPluginQueue(plugins, payload[1])
       IN  /\ accepted' = IF reject THEN accepted ELSE accepted + 1
           /\ Series(messages, idx + 1, NeedleAfter(needleCount, reject),
                     firstTT, lastTT, pageTriggered, Handler(emitted),
                     outstanding)
    /\ UNCHANGED <<given, plugins, firstTT, lastTT, status, throwCount>>

OtherShared ==
    /\ cur' = cur
    /\ other' = [other EXCEPT !.needleCount = needleCount',
                              !.firstTT = firstTT',
                              !.lastTT = lastTT']

\* needleCount, firstTT, lastTT and the rest are fields of the instance
\* (this.needleCount = 0 and so on in the constructor), and the callbacks
\* are arrow functions bound to it: a handler writes its own Search only
OtherUntouched == UNCHANGED <<other, cur>>

\* the history primitive is free to answer as it likes; deliveries are
\* not counted
Unrecorded == UNCHANGED <<answered, delivered>>

Next ==
    \/ Construct /\ OtherUntouched /\ Unrecorded
    \/ HistoryResponse /\ OtherUntouched /\ Unrecorded
    \/ TriggerSettle /\ OtherUntouched /\ Unrecorded

Spec == Init /\ [][Next]_vars

\* pubnub.history calls its callback and trigger settles: every request is
\* answered and every triggered record settles
FairSpec ==
    /\ Spec
    /\ WF_vars(HistoryResponse /\ OtherUntouched /\ Unrecorded)
    /\ WF_vars(TriggerSettle /\ OtherUntouched /\ Unrecorded)

\* ------------------------------------------------------ two sessions
\* two Searches on the same chat, with these configs
TwoConfigs ==
    {g \in Configs : /\ g.event = Some("msg")
                     /\ g.sender = Undefined
                     /\ g.limit = Some(MaxLimit)
                     /\ g.count = Some(1)
                     /\ g.start = Undefined}

TwoInit ==
    /\ Session
    /\ given \in TwoConfigs
    /\ other \in {Fresh(g) : g \in TwoConfigs}
    /\ cur = 1
    /\ answered = {}
    /\ delivered = [tt \in 1..MaxTT |-> 0]

\* the event loop turns to a callback of the other Search
Switch ==
    /\ cur' = 3 - cur
    /\ other' = Current
    /\ given' = other.given
    /\ config' = other.config
    /\ plugins' = other.plugins
    /\ needleCount' = other.needleCount
    /\ firstTT' = other.firstTT
    /\ lastTT' = other.lastTT
    /\ firstPage' = other.firstPage
    /\ pc' = other.pc
    /\ messages' = other.messages
    /\ idx' = other.idx
    /\ payload' = other.payload
    /\ outstanding' = other.outstanding
    /\ status' = other.status
    /\ emitted' = other.emitted
    /\ throwCount' = other.throwCount
    /\ requests' = other.requests
    /\ reqStart' = other.reqStart
    /\ prevReqStart' = other.prevReqStart
    /\ leftBehind' = other.leftBehind
    /\ triggerCalls' = other.triggerCalls
    /\ pageTriggered' = other.pageTriggered
    /\ accepted' = other.accepted

TwoNext == Next \/ (Switch /\ Unrecorded)

TwoSpec == TwoInit /\ [][TwoNext]_vars

\* ------------------------------------- a history primitive with a memory
\* the parameters of a history request that the session can vary
Params == [start |-> config.start, count |-> config.count,
           reverse |-> config.reverse]

\* pages whose records have different timetokens
DistinctResponses(count) ==
    {r \in Responses(count) :
        r.messages # Undefined =>
            \A i, j \in DOMAIN r.messages[1] :
                i # j => r.messages[1][i].timetoken
                            # r.messages[1][j].timetoken}

\* the callback of a history primitive that answers a request from its
\* parameters alone: what it answered once to given parameters it answers
\* again
DetHistoryResponse ==
    /\ pc = "awaitHistory"
    /\ LET known == {a \in answered : a.params = Params} IN
       IF known = {}
       THEN \/ OnError /\ answered' = answered
            \/ \E response \in DistinctResponses(config.count) :
                  /\ OnSuccess(response)
                  /\ answered' = answered \cup
                        {[params |-> Params, response |-> response]}
       ELSE \E a \in known :
              /\ OnSuccess(a.response)
              /\ answered' = answered

\* the step called trigger for messages[idx]: one more delivery of the
\* record of that timetoken
Deliver ==
    delivered' = IF pc' = "awaitTrigger"
                 THEN [delivered EXCEPT ![messages'[idx'].timetoken]
                                            = Min(@ + 1, 2)]
                 ELSE delivered

DetNext ==
    \/ Construct /\ OtherUntouched /\ Deliver /\ answered' = answered
    \/ DetHistoryResponse /\ OtherUntouched /\ Deliver
    \/ TriggerSettle /\ OtherUntouched /\ Deliver /\ answered' = answered

DetSpec == Init /\ [][DetNext]_vars

\* ------------------------------------------------------------------ claims
Started == pc # "new"
Stopped == pc \in {"finished", "errored"}
FinishCount == emitted["$.search.finish"]

\* C1 as stated: the number of records for which triggerHistory calls
\* trigger never exceeds config.limit.
C1_TriggerCallsWithinLimit ==
    Started => triggerCalls <= config.limit

\* C1 amended: the number of records whose trigger settles as not rejected
\* (the records the listeners receive) never exceeds config.limit.
C1_AcceptedWithinLimit ==
    Started => accepted <= config.limit

\* the limit is reached although an earlier record was triggered and rejected
C1_Witness ==
    /\ pc = "finished"
    /\ accepted = config.limit
    /\ triggerCalls > accepted

C3_CursorAdvances ==
    (pc = "awaitHistory" /\ requests >= 2) =>
        /\ reqStart = Some(IF config.reverse THEN lastTT ELSE firstTT)
        /\ reqStart # prevReqStart

\* C4: once a page shorter than config.count has been returned, or the
\* primitive has reported an error, or needleCount has reached limit, the
\* session stops for good: it emits $.search.finish or ends in the error.
C4_Terminates ==
    (\/ pc = "awaitTrigger" /\ Len(messages) < config.count
     \/ status = "error"
     \/ Started /\ needleCount >= config.limit)
    ~> Stopped

\* a session that went through more than one page and ended on a short one
C4_Witness ==
    /\ pc = "finished"
    /\ requests >= 2
    /\ triggerCalls >= 1
    /\ Len(messages) < config.count

\* C5 as stated: $.search.finish has been emitted exactly once wherever the
\* session has stopped, the error path included.
C5_FinishOnEveryPath ==
    Stopped => FinishCount = 1

\* C5 amended: $.search.finish is emitted exactly once when the session stops
\* after a page (history exhausted or limit reached), never before, and not
\* at all when the history primitive reports an error.
C5_FinishOnceUnlessError ==
    /\ pc = "finished" => FinishCount = 1
    /\ pc # "finished" => FinishCount = 0

\* the session stopped because the limit was reached, after several pages
C5_Witness ==
    /\ pc = "finished"
    /\ requests >= 2
    /\ needleCount >= config.limit
    /\ FinishCount = 1

\* C6: at most one history request is outstanding, and a request is made
\* only when every record of the page before has been consumed: none is
\* left in the series and no trigger is unsettled.
C6_SerialPagination ==
    /\ outstanding \in {0, 1}
    /\ outstanding = 1 <=> pc = "awaitHistory"
    /\ pc = "awaitHistory" => leftBehind = 0 /\ payload = Undefined
    /\ pc = "awaitTrigger" => idx \in DOMAIN messages /\ payload # Undefined

\* a further page is requested after a page whose records were triggered
C6_Witness ==
    /\ pc = "awaitHistory"
    /\ requests >= 2
    /\ triggerCalls >= 2

\* the payload of the unsettled trigger call passes the event filter
MatchesEvent == payload[1].event = config.event[1]
\* the payload of the unsettled trigger call passes the sender filter
MatchesSender ==
    /\ payload[1].sender # Undefined
    /\ payload[1].sender[1].uuid = config.sender[1].uuid

\* C7: with config.event = E, the settlement of a record whose event name
\* is not E reaches no listener and leaves needleCount as it was.
C7_EventFilter ==
    [][(pc = "awaitTrigger" /\ config.event # Undefined /\ ~MatchesEvent)
        => (accepted' = accepted /\ needleCount' = needleCount)]_vars

\* under an event filter alone, one record was rejected and one accepted
C7_Witness ==
    /\ pc = "finished"
    /\ config.event # Undefined
    /\ config.sender = Undefined
    /\ triggerCalls = 2
    /\ accepted = 1
    /\ needleCount = 1

\* C8: with config.sender set, the settlement of a record that carries no
\* sender, or a sender with another uuid, reaches no listener and leaves
\* needleCount as it was; with both filters set, a record is accepted (it
\* reaches the listeners and is counted) only if it matches both.
C8_SenderFilter ==
    [][/\ (pc = "awaitTrigger" /\ config.sender # Undefined /\ ~MatchesSender)
            => (accepted' = accepted /\ needleCount' = needleCount)
       /\ (/\ pc = "awaitTrigger"
           /\ config.sender # Undefined
           /\ config.event # Undefined
           /\ (accepted' # accepted \/ needleCount' # needleCount))
            => (MatchesEvent /\ MatchesSender)]_vars

\* under both filters, records were rejected and one was accepted
C8_Witness ==
    /\ pc = "finished"
    /\ config.event # Undefined
    /\ config.sender # Undefined
    /\ triggerCalls = 3
    /\ accepted = 1
    /\ needleCount = 1

\* C9: a history response that reports an error is surfaced by exactly one
\* call of throwError; the step that handles it triggers no record and
\* leaves needleCount, firstTT and lastTT as they were; and afterwards the
\* session has no request outstanding and never makes another.
C9_ErrorIsTerminal ==
    /\ [](status = "error" =>
            (throwCount = 1 /\ pc = "errored" /\ outstanding = 0))
    /\ [][/\ (status # "error" /\ status' = "error") =>
                /\ throwCount' = throwCount + 1
                /\ triggerCalls' = triggerCalls
                /\ accepted' = accepted
                /\ needleCount' = needleCount
                /\ firstTT' = firstTT
                /\ lastTT' = lastTT
          /\ status = "error" =>
                /\ requests' = requests
                /\ throwCount' = throwCount
                /\ triggerCalls' = triggerCalls]_vars

\* the error came on a later page, after records had been counted
C9_Witness ==
    /\ status = "error"
    /\ pc = "errored"
    /\ requests >= 2
    /\ needleCount >= 1
    /\ firstTT # 0

\* C10 as stated: a session configured with limit = 0 never triggers a
\* record.
C10_LimitZeroTriggersNothing ==
    given.limit = Some(0) => triggerCalls = 0

\* ---------------------------------------------------------------------
\* C11  Continuation rule.  A step that ends the processing of a page
\* (a history response or a settled trigger after which no trigger call
\* is pending) requests another page if and only if the page held exactly
\* config.count records and needleCount is below config.limit; otherwise
\* the session stops.  So when $.search.finish has been emitted, either
\* needleCount >= config.limit or the last page's length differs from
\* config.count.

C11_StopReason ==
    pc = "finished" =>
        \/ needleCount >= config.limit
        \/ Len(messages) # config.count

C11_RequestIffFullAndBelowLimit ==
    (/\ pc \in {"awaitHistory", "awaitTrigger"}
     /\ pc' \in {"awaitHistory", "finished"})
        => /\ (pc' = "awaitHistory") <=>
                (/\ pc = "awaitTrigger"
                 /\ Len(messages) = config.count
                 /\ needleCount' < config.limit)
           /\ requests' = IF pc' = "awaitHistory" THEN Bump(requests)
                                                  ELSE requests
           /\ (pc' = "finished") <=> (FinishCount' = 1)

C11_ContinuationRule ==
    /\ []C11_StopReason
    /\ [][C11_RequestIffFullAndBelowLimit]_vars

\* the session stopped on the limit although the last page was full
C11_Witness ==
    /\ pc = "finished"
    /\ requests >= 2
    /\ Len(messages) = config.count
    /\ needleCount = config.limit
    /\ Len(pageTriggered) >= 1

\* ---------------------------------------------------------------------
\* C12  As stated: $.search.page.response for a page is emitted after that
\* page's whole trigger sequence, so while a record of the page is being
\* triggered the signal of that page has not been emitted yet: fewer
\* page.response than page.request signals so far.
C12_ResponseAfterTriggers ==
    (pc = "awaitTrigger" /\ requests < MaxLog) =>
        emitted["$.search.page.response"] < emitted["$.search.page.request"]

\* C12  As the code has it: $.search.page.response is emitted when the
\* history response arrives, before any record of that page is passed to
\* trigger.  While a record is being triggered the signal of its page is
\* out already; the handler that triggers the first record of a page has
\* emitted the signal first; and no handler emits it after a trigger call.
C12_ResponseBeforeTriggers ==
    LET calls == emitted["calls"] IN
    /\ pc = "awaitTrigger" =>
          /\ emitted["$.search.page.response"]
                = emitted["$.search.page.request"]
          /\ Len(pageTriggered) = 1
                => calls = <<"$.search.page.response", "trigger">>
          /\ Len(pageTriggered) > 1 => calls = <<"trigger">>
    /\ \A i, j \in 1..Len(calls) :
          (calls[i] = "trigger" /\ calls[j] = "$.search.page.response")
              => j < i

\* the second record of the second page is being triggered after the
\* second page.response signal
C12_Witness ==
    /\ pc = "awaitTrigger"
    /\ requests = 2
    /\ emitted["$.search.page.response"] = 2
    /\ Len(pageTriggered) = 2

\* ---------------------------------------------------------------------
\* the session has no event and no sender filter
NoFilter == config.event = Undefined /\ config.sender = Undefined

\* the session finished on its first page, which was shorter than count
ShortFirstPageDone ==
    /\ pc = "finished"
    /\ requests = 1
    /\ NoFilter
    /\ Len(messages) < config.count

C13_ShortPageTriggered ==
    ShortFirstPageDone =>
        LET m == Min(Len(messages), config.limit) IN
        /\ pageTriggered = SubSeq(messages, 1, m)
        /\ triggerCalls = m
        /\ accepted = m
        /\ needleCount = m
        /\ FinishCount = 1
        /\ \A i, j \in DOMAIN pageTriggered :
              i < j =>
                  IF ~config.reverse
                  THEN ParseInt(pageTriggered[i].timetoken)
                          >= ParseInt(pageTriggered[j].timetoken)
                  ELSE ParseInt(pageTriggered[i].timetoken)
                          <= ParseInt(pageTriggered[j].timetoken)

C13_OneRequest ==
    (/\ pc = "awaitTrigger"
     /\ requests = 1
     /\ NoFilter
     /\ Len(messages) < config.count)
        => /\ requests' = 1
           /\ pc' \in {"awaitTrigger", "finished"}

EmptyOrUndefinedPage ==
    /\ status = "ok"
    /\ pc \in {"finished", "threw"}
    /\ messages = <<>>

\* C14 as stated: a successful response whose record sequence is empty or
\* undefined is treated as zero records: nothing is triggered, no exception
\* leaves the callback, no further page is requested and $.search.finish is
\* emitted.
C14_EmptyPageFinishes ==
    EmptyOrUndefinedPage =>
        /\ pc = "finished"
        /\ FinishCount = 1
        /\ pageTriggered = <<>>
        /\ outstanding = 0

\* ---------------------------------------------------------------------
\* C15  Session isolation.  With two Searches on the same chat whose
\* callbacks interleave, a step of one (constructor, history callback,
\* trigger settlement) leaves the other's firstTT, lastTT and needleCount
\* as they were; when the event loop turns to the other Search, each finds
\* its three fields as it left them.
C15_StepKeepsOther ==
    IF cur' = cur
    THEN /\ other'.needleCount = other.needleCount
         /\ other'.firstTT = other.firstTT
         /\ other'.lastTT = other.lastTT
    ELSE /\ other'.needleCount = needleCount
         /\ other'.firstTT = firstTT
         /\ other'.lastTT = lastTT
         /\ needleCount' = other.needleCount
         /\ firstTT' = other.firstTT
         /\ lastTT' = other.lastTT

C16_DefaultsOnlyWhenAbsent ==
    Started =>
        /\ config.limit = IF given.limit = Undefined THEN DefaultLimit
                                                     ELSE given.limit[1]
        /\ config.count = IF given.count = Undefined THEN DefaultCount
                                                     ELSE given.count[1]

\* ---------------------------------------------------------------------
\* C17  needleCount invariant.  At every point of a session
\* 0 <= needleCount <= config.limit, and needleCount equals the number of
\* trigger settlements that were not rejected; needleCount never
\* decreases and grows by one at a time, at a settlement; and once it
\* equals config.limit every remaining record of the page is consumed
\* without a trigger call: the step that reaches the limit calls trigger
\* for no record and leaves none in the series.
C17_NeedleWithinLimit ==
    Started =>
        /\ needleCount \in 0..config.limit
        /\ needleCount = accepted
        /\ needleCount = config.limit =>
              /\ pc = "finished"
              /\ payload = Undefined
              /\ idx = Len(messages) + 1

C17_NeedleStep ==
    /\ needleCount' \in {needleCount, needleCount + 1}
    /\ needleCount' # needleCount =>
          /\ pc = "awaitTrigger"
          /\ ~RunPluginQueue(plugins, payload[1])
    /\ (Started /\ needleCount' = config.limit) =>
          /\ triggerCalls' = triggerCalls
          /\ pageTriggered' = pageTriggered

C17_NeedleCount ==
    /\ []C17_NeedleWithinLimit
    /\ [][C17_NeedleStep]_vars

\* with an event filter, a later page of two records: the first was
\* received and reached the limit, the second was consumed untriggered
C17_Witness ==
    /\ pc = "finished"
    /\ config.event # Undefined
    /\ requests >= 2
    /\ needleCount = config.limit
    /\ triggerCalls > needleCount
    /\ Len(messages) = 2
    /\ Len(pageTriggered) = 1

\* ---------------------------------------------------------------------
\* C18 as stated: against a history primitive that answers a request from
\* its parameters alone, no record (identified by its timetoken) is passed
\* to trigger more than once during one session, across all its pages.
C18_NoDuplicateDelivery ==
    \A tt \in DOMAIN delivered : delivered[tt] <= 1

\* ---------------------------------------------------------------------
\* C19  Signal order.  $.search.start is emitted exactly once, by the
\* constructor, and before the first $.search.page.request; every call of
\* pubnub.history is immediately preceded by exactly one
\* $.search.page.request, and every such signal is followed by the call;
\* and the number of $.search.page.response signals is at most the number
\* of $.search.page.request signals and differs from it by at most one
\* (by exactly one while a request is outstanding).
C19_SignalOrder ==
    LET calls == emitted["calls"]
        req == emitted["$.search.page.request"]
        resp == emitted["$.search.page.response"]
    IN
    /\ emitted["$.search.start"] = IF Started THEN 1 ELSE 0
    /\ ~Started => req = 0 /\ resp = 0 /\ calls = <<>>
    /\ \A i \in DOMAIN calls :
          /\ calls[i] = "$.search.start" => i = 1 /\ requests = 1
          /\ calls[i] = "pubnub.history" =>
                /\ i > 1
                /\ calls[i - 1] = "$.search.page.request"
                /\ i > 2 => calls[i - 2] # "$.search.page.request"
          /\ calls[i] = "$.search.page.request" =>
                /\ i < Len(calls)
                /\ calls[i + 1] = "pubnub.history"
    /\ (pc = "awaitHistory" /\ requests = 1) =>
          calls = <<"$.search.start", "$.search.page.request",
                    "pubnub.history">>
    /\ req = requests
    /\ resp <= req
    /\ req - resp <= 1
    /\ requests < MaxLog => (req - resp = 1 <=> pc = "awaitHistory")

\* the third history request is outstanding: three page.request signals,
\* two page.response signals, the last handler emitted page.request and
\* called pubnub.history right after
C19_Witness ==
    /\ pc = "awaitHistory"
    /\ emitted["$.search.start"] = 1
    /\ emitted["$.search.page.request"] = 3
    /\ emitted["$.search.page.response"] = 2
    /\ emitted["calls"] = <<"$.search.page.request", "pubnub.history">>

====
